---- MODULE Spec2Model ----
(***************************************************************************)
(* Expenses Explorer (src/app.py): the cached loader load_data and the     *)
(* render script main.                                                     *)
(*                                                                         *)
(* Text is a sequence of one-character strings, so that strip, lower and   *)
(* upper are computed character by character.  A missing cell (None / NaN) *)
(* is NA; a number is a record [nan, v] (NaN carries v = 0); a date is a   *)
(* record [m, d] of the model year 2024 and NaT is [m |-> 0, d |-> 0].     *)
(* Amounts are whole numbers.                                              *)
(***************************************************************************)
EXTENDS Integers, Sequences, FiniteSets, TLC

VARIABLES source, cache, reads, loaded,
          outcome, df, date_range, selected, start_date, end_date,
          out, metrics, insights

vars == <<source, cache, reads, loaded,
          outcome, df, date_range, selected, start_date, end_date,
          out, metrics, insights>>

render == <<outcome, df, date_range, selected, start_date, end_date,
            out, metrics, insights>>

----------------------------------------------------------------------------
(* Bounds of the model *)

\* Rows of an external table at most.
MaxRows == 2

----------------------------------------------------------------------------
(* Text *)

LowerAlpha == <<"a","b","c","d","e","f","g","h","i","j","k","l","m",
                "n","o","p","q","r","s","t","u","v","w","x","y","z">>
UpperAlpha == <<"A","B","C","D","E","F","G","H","I","J","K","L","M",
                "N","O","P","Q","R","S","T","U","V","W","X","Y","Z">>
Whitespace == {" ", "\t", "\n"}
DigitChars == <<"0","1","2","3","4","5","6","7","8","9">>

NA == <<"<NA>">>

CharLower(c) ==
    IF \E i \in 1..26 : UpperAlpha[i] = c
    THEN LowerAlpha[CHOOSE i \in 1..26 : UpperAlpha[i] = c]
    ELSE c

CharUpper(c) ==
    IF \E i \in 1..26 : LowerAlpha[i] = c
    THEN UpperAlpha[CHOOSE i \in 1..26 : LowerAlpha[i] = c]
    ELSE c

\* str.lower / str.upper; a missing value stays missing (.str accessor)
StrLower(s) == IF s = NA THEN NA ELSE [i \in 1..Len(s) |-> CharLower(s[i])]
StrUpper(s) == IF s = NA THEN NA ELSE [i \in 1..Len(s) |-> CharUpper(s[i])]

\* str.strip: leading and trailing whitespace removed
StrStrip(s) ==
    IF s = NA THEN NA
    ELSE LET ink == {i \in 1..Len(s) : s[i] \notin Whitespace}
         IN  IF ink = {} THEN <<>>
             ELSE LET lo == CHOOSE i \in ink : \A j \in ink : i <= j
                      hi == CHOOSE i \in ink : \A j \in ink : j <= i
                  IN  SubSeq(s, lo, hi)

\* astype(str): a missing cell prints as "None" (sheet rows) or "nan" (CSV)
AsTypeStr(s, use_google_sheets) ==
    IF s # NA THEN s
    ELSE IF use_google_sheets THEN <<"N","o","n","e">> ELSE <<"n","a","n">>

S_DEBIT == <<"D","E","B","I","T">>
S_transfer_pmt == <<"t","r","a","n","s","f","e","r","/","p","m","t">>
S_investment == <<"i","n","v","e","s","t","m","e","n","t">>
S_rental_inc == <<"r","e","n","t","a","l"," ","i","n","c">>
S_uncategorized == <<"(","u","n","c","a","t","e","g","o","r","i","z","e","d",")">>

----------------------------------------------------------------------------
(* Numbers and dates *)

NaN == [nan |-> TRUE, v |-> 0]
Num(n) == [nan |-> FALSE, v |-> n]
NaT == [m |-> 0, d |-> 0]

\* Day of the month from which a month counts as covered.
CoverageDay == 25

IsDigits(s) == Len(s) > 0 /\ \A i \in 1..Len(s) : \E k \in 1..10 : DigitChars[k] = s[i]
DigitVal(c) == (CHOOSE k \in 1..10 : DigitChars[k] = c) - 1

RECURSIVE ParseNat(_)
ParseNat(s) ==
    IF s = <<>> THEN 0
    ELSE 10 * ParseNat(SubSeq(s, 1, Len(s) - 1)) + DigitVal(s[Len(s)])

\* pd.to_numeric(errors="coerce"): text that is no number becomes NaN
ToNumeric(s) ==
    IF s = NA \/ s = <<>> THEN NaN
    ELSE IF IsDigits(s) THEN Num(ParseNat(s))
    ELSE IF s[1] = "-" /\ IsDigits(Tail(s)) THEN Num(0 - ParseNat(Tail(s)))
    ELSE NaN

DaysInMonth(m) == IF m = 2 THEN 29 ELSE IF m \in {4, 6, 9, 11} THEN 30 ELSE 31

\* pd.to_datetime(errors="coerce") of the fields <<month, day>>: no such
\* calendar day becomes NaT
ToDatetime(raw) ==
    IF raw = NA THEN NaT
    ELSE IF raw[1] \in 1..12 /\ raw[2] \in 1..DaysInMonth(raw[1])
         THEN [m |-> raw[1], d |-> raw[2]]
         ELSE NaT

DateLE(a, b) == a.m < b.m \/ (a.m = b.m /\ a.d <= b.d)

\* dt.to_period("M"): the month of a date, 0 for NaT
ToPeriod(date) == date.m

\* Period.to_timestamp(): the first day of the month
MonthStart(date) == IF date = NaT THEN NaT ELSE [m |-> date.m, d |-> 1]

----------------------------------------------------------------------------
(* Tables *)

Range(s) == {s[i] : i \in 1..Len(s)}

\* df[mask]: the rows whose position is in keep, in order
RECURSIVE Rows(_, _, _)
Rows(t, keep, i) ==
    IF i > Len(t) THEN <<>>
    ELSE IF i \in keep THEN <<t[i]>> \o Rows(t, keep, i + 1)
    ELSE Rows(t, keep, i + 1)

Where(t, keep) == Rows(t, keep, 1)

----------------------------------------------------------------------------
(* load_data *)

\* lines 51-56: columns parsed, month bucket derived; idx is the frame's index
Parsed(raw) ==
    [i \in 1..Len(raw) |->
        [idx      |-> i,
         date     |-> ToDatetime(raw[i].date),
         amount   |-> ToNumeric(raw[i].amount),
         type     |-> raw[i].type,
         category |-> raw[i].category,
         month    |-> ToPeriod(ToDatetime(raw[i].date))]]

\* lines 57-59: months whose latest date is on or after the 25th; the NaT
\* group is dropped by groupby
CoverageMonthsAll(t) == {t[i].month : i \in 1..Len(t)} \ {0}

CoverageMonths(t) ==
    {mo \in {t[i].month : i \in 1..Len(t)} \ {0} :
        LET days == {t[i].date.d : i \in {j \in 1..Len(t) : t[j].month = mo}}
            last == CHOOSE x \in days : \A y \in days : y <= x
        IN  last >= CoverageDay}

\* line 63
IsDebit(type) == StrUpper(type) = S_DEBIT

\* lines 64-67
excluded_categories == {S_transfer_pmt, S_investment, S_rental_inc}

IsExcludedNoStrip(category, use_google_sheets) ==
    StrLower(AsTypeStr(category, use_google_sheets)) \in excluded_categories

IsExcluded(category, use_google_sheets) ==
    StrLower(StrStrip(AsTypeStr(category, use_google_sheets))) \in excluded_categories

\* line 70
Negate(x) == IF x.nan THEN NaN ELSE Num(0 - x.v)

\* line 76
NormalizeNoLower(category) ==
    StrStrip(IF category = NA THEN S_uncategorized ELSE category)

NormalizeCategory(category) ==
    StrLower(StrStrip(IF category = NA THEN S_uncategorized ELSE category))

\* lines 51-78, the body of load_data after the external read
LoadDataBody(raw, use_google_sheets) ==
    LET t0 == Parsed(raw)
        cm == CoverageMonths(t0)
        t1 == Where(t0, {i \in 1..Len(t0) : t0[i].month \in cm})
        t2 == Where(t1, {i \in 1..Len(t1) : IsDebit(t1[i].type)})
        t3 == Where(t2, {i \in 1..Len(t2) :
                            ~IsExcluded(t2[i].category, use_google_sheets)})
    IN  [i \in 1..Len(t3) |->
            [idx         |-> t3[i].idx,
             date        |-> t3[i].date,
             amount      |-> t3[i].amount,
             type        |-> t3[i].type,
             category    |-> NormalizeCategory(t3[i].category),
             month       |-> t3[i].month,
             spend       |-> Negate(t3[i].amount),
             month_start |-> MonthStart(t3[i].date)]]

----------------------------------------------------------------------------
(* main: widgets and filters *)

\* Months of history a category needs to enter the correlation matrix.
MinMonths == 4
\* Months of history a category needs to have a monthly range.
MinRangeMonths == 2
\* Bullets kept by the final slice, and correlation bullets kept.
InsightsCap == 7
CorrCap == 2

Unbound == [m |-> -1, d |-> -1]

EmptyAfterLoad(t) == Len(t) = 0

EmptyNever(t) == FALSE

EmptyAfterFilters(t) == Len(t) = 0

Dates(t) == {t[i].date : i \in 1..Len(t)}
MinDate(t) == CHOOSE x \in Dates(t) : \A y \in Dates(t) : DateLE(x, y)
MaxDate(t) == CHOOSE x \in Dates(t) : \A y \in Dates(t) : DateLE(y, x)

\* line 122
CategoriesOf(t) == {t[i].category : i \in 1..Len(t)}

\* What st.date_input can return between min_date and max_date: a pair
\* start <= end, or one date while the user is picking the second.  The
\* model picks among the days that carry a transaction.
DateRangeValues(t) ==
    {<<a>> : a \in Dates(t)}
    \cup {w \in Dates(t) \X Dates(t) : DateLE(w[1], w[2])}

\* What st.multiselect can return: any subset of the options.
SelectedValues(t) == SUBSET CategoriesOf(t)

\* line 127
IsRange(dr) == Len(dr) = 2

\* line 129
DateMaskNoEnd(t, dr) == {i \in 1..Len(t) : DateLE(dr[1], t[i].date)}

DateMask(t, dr) ==
    {i \in 1..Len(t) : DateLE(dr[1], t[i].date) /\ DateLE(t[i].date, dr[2])}

\* lines 127-133
ApplyFilters(t, dr, sel) ==
    LET a == IF IsRange(dr) THEN Where(t, DateMask(t, dr)) ELSE t
    IN  IF sel # {}
        THEN Where(a, {i \in 1..Len(a) : a[i].category \in sel})
        ELSE a

----------------------------------------------------------------------------
(* main: aggregates *)

\* Series.sum(): missing values are skipped, the sum of none is 0
RECURSIVE SumSpend(_, _)
SumSpend(t, keep) ==
    IF keep = {} THEN 0
    ELSE LET i == CHOOSE k \in keep : TRUE
         IN  (IF t[i].spend.nan THEN 0 ELSE t[i].spend.v) + SumSpend(t, keep \ {i})

\* line 140
TotalSpend(t) == SumSpend(t, 1..Len(t))

\* line 141
MonthlySpend(t) ==
    [ms \in {t[i].month_start : i \in 1..Len(t)} |->
        SumSpend(t, {i \in 1..Len(t) : t[i].month_start = ms})]

\* lines 163-165, 176-178
CategoryTotal(t) ==
    [c \in CategoriesOf(t) |->
        SumSpend(t, {i \in 1..Len(t) : t[i].category = c})]

\* lines 268-274, 357-363: the pivot's cell of a month and a category that
\* share a row
PivotCell(t, ms, c) ==
    SumSpend(t, {i \in 1..Len(t) : t[i].month_start = ms /\ t[i].category = c})

\* The months in which a pivot column holds a value (DataFrame.count())
PivotMonths(t, c) ==
    {t[i].month_start : i \in {j \in 1..Len(t) : t[j].category = c}}

\* lines 142, 145-147
Metrics(t) ==
    [total_spend  |-> TotalSpend(t),
     avg_monthly  |-> [sum |-> TotalSpend(t),
                       n   |-> Cardinality(DOMAIN MonthlySpend(t))],
     transactions |-> Len(t)]

\* DataFrame.corr() of two columns is a number when they share two months
\* or more and neither is constant over the shared months
CorrDefined(t, a, b) ==
    LET shared == PivotMonths(t, a) \cap PivotMonths(t, b)
    IN  /\ Cardinality(shared) >= 2
        /\ \E x, y \in shared : PivotCell(t, x, a) # PivotCell(t, y, a)
        /\ \E x, y \in shared : PivotCell(t, x, b) # PivotCell(t, y, b)

\* lines 275-333
Eligible(t) ==
    {c \in CategoriesOf(t) : Cardinality(PivotMonths(t, c)) >= MinMonths}

CorrSummary(t) ==
    IF /\ Cardinality(Eligible(t)) >= 2
       /\ \E a, b \in Eligible(t) : a # b /\ CorrDefined(t, a, b)
    THEN <<"corr_neg", "corr_pos">>
    ELSE <<>>

Take(s, n) == SubSeq(s, 1, IF n < Len(s) THEN n ELSE Len(s))

\* lines 340-387
InsightList(t) ==
    (<<"date_range">>)
    \o (IF DOMAIN MonthlySpend(t) # {} THEN <<"median">> ELSE <<>>)
    \o (IF CategoriesOf(t) # {} /\ TotalSpend(t) > 0 THEN <<"top">> ELSE <<>>)
    \o (IF \E c \in CategoriesOf(t) :
              Cardinality(PivotMonths(t, c)) >= MinRangeMonths
        THEN <<"stable", "variable">> ELSE <<>>)

\* lines 389-395
KeepBullets(ins, corr_summary) ==
    IF corr_summary # <<>>
    THEN LET cs == Take(corr_summary, CorrCap)
             remaining == IF InsightsCap - Len(cs) > 0
                          THEN InsightsCap - Len(cs) ELSE 0
         IN  Take(ins, remaining) \o cs
    ELSE Take(ins, InsightsCap)

NoMetrics == [total_spend |-> 0, avg_monthly |-> [sum |-> 0, n |-> 0],
              transactions |-> 0]

\* lines 110-397 after load_data() has returned t, with the widgets'
\* values dr and sel
MainBody(t, dr, sel) ==
    IF EmptyAfterLoad(t)
    THEN [outcome |-> "warn_load", df |-> t, date_range |-> <<>>,
          selected |-> {}, start_date |-> Unbound, end_date |-> Unbound,
          out |-> {"warning"}, metrics |-> NoMetrics, insights |-> <<>>]
    ELSE
    LET f == ApplyFilters(t, dr, sel)
        sd == IF IsRange(dr) THEN dr[1] ELSE Unbound
        ed == IF IsRange(dr) THEN dr[2] ELSE Unbound
        shown == {"metric", "chart", "table"}
                 \cup (IF Cardinality(Eligible(f)) >= 2 THEN {} ELSE {"info"})
    IN  IF EmptyAfterFilters(f)
        THEN [outcome |-> "warn_filter", df |-> f, date_range |-> dr,
              selected |-> sel, start_date |-> sd, end_date |-> ed,
              out |-> {"warning"}, metrics |-> NoMetrics, insights |-> <<>>]
        ELSE IF sd = Unbound
        THEN \* line 342: start_date is not bound, the run ends in a NameError
             [outcome |-> "name_error", df |-> f, date_range |-> dr,
              selected |-> sel, start_date |-> sd, end_date |-> ed,
              out |-> shown, metrics |-> Metrics(f), insights |-> <<>>]
        ELSE [outcome |-> "ok", df |-> f, date_range |-> dr,
              selected |-> sel, start_date |-> sd, end_date |-> ed,
              out |-> shown \cup {"insight"}, metrics |-> Metrics(f),
              insights |-> KeepBullets(InsightList(f), CorrSummary(f))]

\* The values the widgets can hand to one run over the loaded table t.
WidgetValues(t) ==
    IF Len(t) = 0 THEN {<<(<<>>), {}>>}
    ELSE DateRangeValues(t) \X SelectedValues(t)

----------------------------------------------------------------------------
(* st.cache_data around load_data *)

NoEntry == [hit |-> FALSE, df |-> <<>>]

\* line 21-22: the cache key is the argument
CacheKeyShared(use_google_sheets) == TRUE

CacheKey(use_google_sheets) == use_google_sheets

CachedLoad(p) ==
    IF cache[CacheKey(p)].hit THEN cache[CacheKey(p)].df
    ELSE LoadDataBody(source[p], p)

\* A call load_data(p) that returns: a miss reads the external source and
\* stores the result
LoadDataReturns(p) ==
    /\ loaded' = [param |-> p, hit |-> cache[CacheKey(p)].hit,
                  df |-> CachedLoad(p)]
    /\ IF cache[CacheKey(p)].hit
       THEN UNCHANGED <<cache, reads>>
       ELSE /\ cache' = [cache EXCEPT ![CacheKey(p)] =
                            [hit |-> TRUE, df |-> CachedLoad(p)]]
            /\ reads' = [reads EXCEPT ![p] = @ + 1]

----------------------------------------------------------------------------
(* Inputs *)

TablesOver(rows, n) == UNION {[1..k -> rows] : k \in 0..n}

Jan20 == <<1, 20>>
Jan25 == <<1, 25>>
Feb28 == <<2, 28>>
Feb30 == <<2, 30>>

T_Debit == <<"D","e","b","i","t">>
T_CREDIT == <<"C","R","E","D","I","T">>
C_Food == <<" ","F","o","o","d">>
C_food == <<"f","o","o","d">>
C_rent == <<"r","e","n","t">>
C_Transfer == <<"T","r","a","n","s","f","e","r","/","P","M","T"," ">>
C_INVESTMENT == <<"I","N","V","E","S","T","M","E","N","T">>
C_Rental == <<"\t","R","e","n","t","a","l"," ","I","n","c">>
A_minus5 == <<"-","5">>
A_minus2 == <<"-","2">>
A_minus1 == <<"-","1">>
A_3 == <<"3">>
A_x == <<"x">>

\* A covered date and a well-formed amount; every type with every category.
TypeCategoryRows ==
    {[date |-> Jan25, amount |-> A_minus5, type |-> ty, category |-> c] :
        ty \in {T_Debit, T_CREDIT, NA},
        c \in {C_Food, C_food, C_Transfer, C_INVESTMENT, C_Rental, NA}}

\* Debits of one category; every date with every amount.
DateAmountRows ==
    {[date |-> d, amount |-> a, type |-> T_Debit, category |-> C_Food] :
        d \in {Jan20, Jan25, Feb28, Feb30},
        a \in {A_minus5, A_3, A_x}}

\* Debits of 5; every well-formed date with each of two categories.
DateCategoryRows ==
    {[date |-> d, amount |-> A_minus5, type |-> S_DEBIT, category |-> c] :
        d \in {Jan20, Jan25, Feb28},
        c \in {C_Food, C_rent}}

\* Rows an external source gains while the program runs.
CacheRows ==
    {[date |-> Jan25, amount |-> A_minus5, type |-> S_DEBIT, category |-> C_food],
     [date |-> Feb28, amount |-> A_minus2, type |-> S_DEBIT, category |-> C_rent]}

\* A monthly ledger: in each of the first MinMonths months and for each of
\* two categories, one debit on the 25th or none.  "food" alternates between
\* 1 and 2, "rent" is 1 in the first two months and 2 afterwards.
GridCategories == <<C_food, C_rent>>
GridCells == SUBSET ((1..MinMonths) \X (1..2))

GridAmount(mo, ci) ==
    IF ci = 1 THEN (IF mo % 2 = 1 THEN A_minus1 ELSE A_minus2)
    ELSE (IF mo <= 2 THEN A_minus1 ELSE A_minus2)

GridTable(g) ==
    LET all == [k \in 1..(2 * MinMonths) |->
                   LET mo == ((k - 1) \div 2) + 1
                       ci == ((k - 1) % 2) + 1
                   IN  [date |-> <<mo, CoverageDay>>, amount |-> GridAmount(mo, ci),
                        type |-> S_DEBIT, category |-> GridCategories[ci]]]
    IN  Where(all, {k \in 1..Len(all) :
                       <<((k - 1) \div 2) + 1, ((k - 1) % 2) + 1>> \in g})

GridTables == {GridTable(g) : g \in GridCells}

----------------------------------------------------------------------------
(* Actions *)

\* What a run of main() leaves on the page.
Shows(r) ==
    /\ outcome' = r.outcome
    /\ df' = r.df
    /\ date_range' = r.date_range
    /\ selected' = r.selected
    /\ start_date' = r.start_date
    /\ end_date' = r.end_date
    /\ out' = r.out
    /\ metrics' = r.metrics
    /\ insights' = r.insights

\* One run of main(); line 110 calls load_data() with its default, True.
\* The loaded table is empty: lines 111-113.
MainEmptyLoad ==
    LET t == CachedLoad(TRUE)
    IN  /\ outcome = "running"
        /\ EmptyAfterLoad(t)
        /\ LoadDataReturns(TRUE)
        /\ Shows(MainBody(t, <<>>, {}))
        /\ UNCHANGED source

\* The filters leave nothing: lines 135-137.
MainEmptyFiltered ==
    LET t == CachedLoad(TRUE)
    IN  /\ outcome = "running"
        /\ ~EmptyAfterLoad(t)
        /\ LoadDataReturns(TRUE)
        /\ \E w \in WidgetValues(t) :
              /\ EmptyAfterFilters(ApplyFilters(t, w[1], w[2]))
              /\ Shows(MainBody(t, w[1], w[2]))
        /\ UNCHANGED source

\* The date widget holds one date: the run ends at line 342.
MainNameError ==
    LET t == CachedLoad(TRUE)
    IN  /\ outcome = "running"
        /\ ~EmptyAfterLoad(t)
        /\ LoadDataReturns(TRUE)
        /\ \E w \in WidgetValues(t) :
              /\ ~IsRange(w[1])
              /\ ~EmptyAfterFilters(ApplyFilters(t, w[1], w[2]))
              /\ Shows(MainBody(t, w[1], w[2]))
        /\ UNCHANGED source

\* The run reaches line 397.
MainRendered ==
    LET t == CachedLoad(TRUE)
    IN  /\ outcome = "running"
        /\ ~EmptyAfterLoad(t)
        /\ LoadDataReturns(TRUE)
        /\ \E w \in WidgetValues(t) :
              /\ IsRange(w[1])
              /\ ~EmptyAfterFilters(ApplyFilters(t, w[1], w[2]))
              /\ Shows(MainBody(t, w[1], w[2]))
        /\ UNCHANGED source

\* A run of main() whose external read raises (credentials, network): the
\* error propagates, nothing is cached and nothing is rendered.
MainLoadError ==
    /\ outcome = "running"
    /\ ~cache[CacheKey(TRUE)].hit
    /\ outcome' = "load_error"
    /\ df' = <<>>
    /\ date_range' = <<>>
    /\ selected' = {}
    /\ start_date' = Unbound
    /\ end_date' = Unbound
    /\ out' = {}
    /\ metrics' = NoMetrics
    /\ insights' = <<>>
    /\ UNCHANGED <<source, cache, reads, loaded>>

\* A widget is touched or the page is reloaded: the page is cleared and the
\* script runs again from its first line.
Rerun ==
    /\ outcome # "running"
    /\ outcome' = "running"
    /\ df' = <<>>
    /\ date_range' = <<>>
    /\ selected' = {}
    /\ start_date' = Unbound
    /\ end_date' = Unbound
    /\ out' = {}
    /\ metrics' = NoMetrics
    /\ insights' = <<>>
    /\ UNCHANGED <<source, cache, reads, loaded>>

\* A direct call load_data(p)
LoadDataCall(p) ==
    /\ LoadDataReturns(p)
    /\ UNCHANGED <<source, render>>

\* The external source behind p gains a row (the sheet range is open-ended).
SourceChange(p) ==
    /\ Len(source[p]) < MaxRows
    /\ \E r \in CacheRows : source' = [source EXCEPT ![p] = Append(@, r)]
    /\ UNCHANGED <<cache, reads, loaded, render>>

----------------------------------------------------------------------------
(* Specifications *)

InitRender ==
    /\ outcome = "running"
    /\ df = <<>>
    /\ date_range = <<>>
    /\ selected = {}
    /\ start_date = Unbound
    /\ end_date = Unbound
    /\ out = {}
    /\ metrics = NoMetrics
    /\ insights = <<>>

InitCacheState ==
    /\ cache = [p \in BOOLEAN |-> NoEntry]
    /\ reads = [p \in BOOLEAN |-> 0]
    /\ loaded = [param |-> TRUE, hit |-> FALSE, df |-> <<>>]

\* The sheet holds any table over one of the three families of rows.
Init ==
    /\ \E t \in TablesOver(TypeCategoryRows, MaxRows)
                \cup TablesOver(DateAmountRows, MaxRows)
                \cup TablesOver(DateCategoryRows, MaxRows) :
          source = [p \in BOOLEAN |-> IF p THEN t ELSE <<>>]
    /\ InitCacheState
    /\ InitRender

Next ==
    \/ MainEmptyLoad
    \/ MainEmptyFiltered
    \/ MainRendered
    \/ MainNameError
    \/ MainLoadError
    \/ Rerun

Spec == Init /\ [][Next]_vars

\* The sheet holds a monthly ledger.
InitGrid ==
    /\ \E t \in GridTables : source = [p \in BOOLEAN |-> IF p THEN t ELSE <<>>]
    /\ InitCacheState
    /\ InitRender

SpecGrid == InitGrid /\ [][Next]_vars

\* Both sources start empty and grow while main and load_data run.
InitCache ==
    /\ source = [p \in BOOLEAN |-> <<>>]
    /\ InitCacheState
    /\ InitRender

NextCache ==
    \/ Next
    \/ \E p \in BOOLEAN : LoadDataCall(p)
    \/ \E p \in BOOLEAN : SourceChange(p)

SpecCache == InitCache /\ [][NextCache]_vars

----------------------------------------------------------------------------
(* Properties *)

\* The table the most recent call of load_data returned, and the external
\* rows it was read from (no specification but SpecCache changes a source).
Returned == loaded.df
Input == source[loaded.param]
InputRow(r) == Input[r.idx]

\* main showed metrics, charts and tables (it went past line 137)
Displayed == outcome \in {"ok", "name_error"}
\* main ran its empty checks
Checked == outcome \in {"warn_load", "warn_filter", "ok", "name_error"}

\* C1: every row load_data returns is a debit (its type upper-cased is
\* DEBIT, so it is neither a credit nor missing) and its category, trimmed
\* and lower-cased, is neither "transfer/pmt" nor "investment".
C1_DebitsOutsideTransfers ==
    \A i \in 1..Len(Returned) :
        /\ Returned[i].type # NA
        /\ StrUpper(Returned[i].type) = <<"D","E","B","I","T">>
        /\ StrLower(StrStrip(Returned[i].category))
              \notin {S_transfer_pmt, S_investment}

\* C1 witness: a debit was returned while a debit of the same table whose
\* category reads "Transfer/PMT " was dropped.
C1_Witness ==
    /\ Len(Returned) = 1
    /\ \E j \in 1..Len(Input) :
          /\ Input[j].category = C_Transfer
          /\ Input[j].type = T_Debit

\* C2: every row load_data returns lies in a month in which some date of
\* the input falls on the 25th or later.
C2_MonthReachesThe25th ==
    \A i \in 1..Len(Returned) :
        \E j \in 1..Len(Input) :
            /\ ToDatetime(Input[j].date) # NaT
            /\ ToDatetime(Input[j].date).m = Returned[i].date.m
            /\ ToDatetime(Input[j].date).d >= 25

\* C2 witness: a row dated the 20th was returned, beside one of the 25th.
C2_Witness ==
    /\ Len(Returned) = 2
    /\ \E i, j \in 1..2 : Returned[i].date.d = 20 /\ Returned[j].date.d = 25

\* The input without the rows whose date or amount does not parse.
WellFormed(raw) ==
    Where(raw, {i \in 1..Len(raw) :
                   /\ ToDatetime(raw[i].date) # NaT
                   /\ ~ToNumeric(raw[i].amount).nan})

\* C3: what main shows (the metrics with the transaction count, the monthly
\* and the per-category sums) is what it would show, under the same widget
\* values, had the rows with an unparsable date or amount been absent.
C3_MalformedRowsCountForNothing ==
    Checked =>
        LET r == MainBody(LoadDataBody(WellFormed(source[TRUE]), TRUE),
                          date_range, selected)
        IN  /\ r.out = out
            /\ r.metrics = metrics
            /\ MonthlySpend(r.df) = MonthlySpend(df)
            /\ CategoryTotal(r.df) = CategoryTotal(df)

\* C4: a run whose table is empty (as loaded, or after the filters) shows
\* the warning and nothing else, and whatever shows a metric, a chart, a
\* table or an insight has a table with rows.
C4_EmptyTableOnlyWarns ==
    /\ (Checked /\ Len(df) = 0) => (out = {"warning"} /\ insights = <<>>)
    /\ (out \cap {"metric", "chart", "table", "insight"} # {}) => Len(df) > 0
    /\ ("warning" \in out) => Len(df) = 0

\* C4 witness: the loaded table had rows and the filters left none.
C4_Witness ==
    /\ outcome = "warn_filter"
    /\ Len(Returned) > 0
    /\ Len(df) = 0
    /\ out = {"warning"}

\* C5: the spend of every returned row with a well-formed amount is
\* positive.
C5_SpendPositive ==
    \A i \in 1..Len(Returned) :
        ~Returned[i].amount.nan =>
            (~Returned[i].spend.nan /\ Returned[i].spend.v > 0)

\* C6: each external source is read at most once; an entry, once stored, is
\* never replaced; and every call load_data(p) returns the entry stored for
\* p, which is the table made from the source behind p when it was read.
C6_CachedPerParameter ==
    [][\A p \in BOOLEAN :
          /\ reads'[p] <= 1
          /\ cache[p].hit => (cache'[p] = cache[p] /\ reads'[p] = reads[p])
          /\ (loaded' # loaded /\ loaded'.param = p) =>
                /\ cache'[p].hit
                /\ cache'[p].df = loaded'.df
                /\ loaded'.df = IF cache[p].hit THEN cache[p].df
                                ELSE LoadDataBody(source[p], p)
                /\ reads'[p] = IF cache[p].hit THEN reads[p] ELSE reads[p] + 1
      ]_vars

\* C6 witness: a call for the sheet was served from the cache with a table
\* the sheet no longer yields, after one read of each source, and the two
\* entries differ.
C6_Witness ==
    /\ loaded.param /\ loaded.hit
    /\ loaded.df = cache[TRUE].df
    /\ loaded.df # LoadDataBody(source[TRUE], TRUE)
    /\ reads = [p \in BOOLEAN |-> 1]
    /\ cache[FALSE].hit /\ cache[FALSE].df # cache[TRUE].df

\* An input category up to letter case and outer whitespace.
UpToCaseAndSpace(a) == IF a = NA THEN S_uncategorized ELSE StrLower(StrStrip(a))

\* C7: the category of every returned row is present, trimmed and lower
\* case, "(uncategorized)" where the input had none, unchanged by a second
\* normalization; two returned rows whose input categories differ only by
\* case or by outer whitespace carry the same category, and the
\* per-category sums main shows have one group for each input category up
\* to case and outer whitespace.
C7_CategoryNormalized ==
    /\ \A i \in 1..Len(Returned) :
          LET c == Returned[i].category
          IN  /\ c # NA
              /\ \A k \in 1..Len(c) : c[k] \notin Range(UpperAlpha)
              /\ c # <<>> => (c[1] \notin Whitespace /\ c[Len(c)] \notin Whitespace)
              /\ NormalizeCategory(c) = c
              /\ InputRow(Returned[i]).category = NA => c = S_uncategorized
    /\ \A i, j \in 1..Len(Returned) :
          LET a == InputRow(Returned[i]).category
              b == InputRow(Returned[j]).category
          IN  (a # NA /\ b # NA /\ StrLower(StrStrip(a)) = StrLower(StrStrip(b)))
                  => Returned[i].category = Returned[j].category
    /\ Displayed =>
          Cardinality(DOMAIN CategoryTotal(df)) =
              Cardinality({UpToCaseAndSpace(InputRow(df[i]).category) :
                              i \in 1..Len(df)})

\* C7 witness: " Food" and "food" were returned in one table and main
\* showed them as a single category.
C7_Witness ==
    /\ Len(Returned) = 2
    /\ InputRow(Returned[1]).category = C_Food
    /\ InputRow(Returned[2]).category = C_food
    /\ outcome = "ok"
    /\ Len(df) = 2
    /\ Cardinality(DOMAIN CategoryTotal(df)) = 1

\* C8: a run that reaches the Insights section shows 3 to 5 bullets.
C8_ThreeToFiveBullets ==
    outcome = "ok" => (Len(insights) >= 3 /\ Len(insights) <= 5)

\* C9 as stated: every row behind what main shows has a category in the
\* selected set and, under a two-date range, a date within it.
C9_RowsMatchWidgets ==
    Displayed =>
        \A i \in 1..Len(df) :
            /\ df[i].category \in selected
            /\ IsRange(date_range) =>
                  (DateLE(date_range[1], df[i].date)
                   /\ DateLE(df[i].date, date_range[2]))

\* C9 as amended: under a selection that is not empty every row behind what
\* main shows has a category in it, and under a two-date range a date
\* within it, both ends included.
C9_RowsMatchWidgetsInUse ==
    Displayed =>
        \A i \in 1..Len(df) :
            /\ selected # {} => df[i].category \in selected
            /\ IsRange(date_range) =>
                  (DateLE(date_range[1], df[i].date)
                   /\ DateLE(df[i].date, date_range[2]))

\* C9 witness: a selection and a range of one day kept a row on that day
\* and filtered another row out.
C9_Witness ==
    /\ outcome = "ok"
    /\ selected # {}
    /\ date_range[1] = date_range[2]
    /\ Len(df) >= 1
    /\ Len(df) < Len(Returned)
    /\ \E i \in 1..Len(df) : df[i].date = date_range[1]

\* C10: whatever the date widget returned, a run over a filtered table with
\* rows reaches the Insights section with start and end date bound.
C10_RunsThroughInsights ==
    (Checked /\ Len(df) > 0) =>
        /\ outcome = "ok"
        /\ start_date # Unbound
        /\ end_date # Unbound
        /\ "insight" \in out

====
